---------------------------- MODULE Spec2Model ----------------------------
(***************************************************************************)
(* A model of the cron expression parser (package cron_parser: config.py   *)
(* and c_parser.py) and of its table renderer, and of the single-file      *)
(* implementation cron_parser.py beside it.                                *)
(*                                                                         *)
(* Python strings are sequences of one-character strings, Python lists are *)
(* sequences, a Python int object is the cell [int |-> n] and a Python str *)
(* object held in a result list is the cell [str |-> chars].  A call ends  *)
(* in an outcome: a returned value or a raised exception.                  *)
(***************************************************************************)
EXTENDS Integers, Sequences, FiniteSets, TLC

VARIABLES
    pc,          \* position of the caller: "start", "evaluated", "parsed", "failed", "printed"
    shape,       \* how the caller built the argument of the call (ghost)
    field,       \* the field a direct get_expression_values call is made for
    expression,  \* the expression passed to get_expression_values
    result,      \* the outcome of get_expression_values
    cron_exp,    \* the line passed to parse_cron
    output,      \* the outcome of parse_cron
    col_width,   \* the col_width passed to generate_table
    table,       \* the string returned by generate_table
    registry,    \* the dict ALLOWED_VALUES of config.py as it is now
    shared,      \* the positions of the held result whose list is a list of the registry
    calls,       \* the number of calls of parse_cron made
    legacy_result,  \* the outcome of parse_cron of cron_parser.py
    legacy_table    \* the string returned by generate_table of cron_parser.py

vars == <<pc, shape, field, expression, result, cron_exp, output, col_width, table,
          registry, shared, calls, legacy_result, legacy_table>>

-----------------------------------------------------------------------------
(* Bounds of the inputs the caller draws.                                   *)

\* How far outside a field's domain the numbers of a drawn expression reach.
Slack == 1
\* The largest step value of a drawn step expression.
MaxStep == 5
\* The largest number in a drawn list expression.
ListMax == 2
\* The largest number of comma-separated elements of a drawn list expression.
MaxElems == 2
\* The longest drawn raw expression, in characters.
MaxLen == 3

-----------------------------------------------------------------------------
(* Python values and outcomes.                                              *)

I(n) == [int |-> n]
S(s) == [str |-> s]
IsInt(cell) == DOMAIN cell = {"int"}

Ok(v) == [status |-> "ok", value |-> v, exc |-> "", msg |-> ""]

Raise(e, m) == [status |-> "raise", value |-> <<>>, exc |-> e, msg |-> m]

-----------------------------------------------------------------------------
(* Python built-ins, as far as the parser uses them.                        *)

DigitChars == <<"0", "1", "2", "3", "4", "5", "6", "7", "8", "9">>
Whitespace == {" ", "\t", "\n"}

IsDigit(c) == \E i \in 1..10 : DigitChars[i] = c
DigitVal(c) == (CHOOSE i \in 1..10 : DigitChars[i] = c) - 1

\* c in s, for a one-character c
Contains(s, c) == \E i \in 1..Len(s) : s[i] = c
\* x in list
In(x, list) == \E i \in 1..Len(list) : list[i] = x

\* list.index(x): the first position (0-based) of x, or -1 where Python raises ValueError
Index(list, x) ==
    IF In(x, list)
    THEN (CHOOSE i \in 1..Len(list) : list[i] = x /\ \A j \in 1..(i - 1) : list[j] # x) - 1
    ELSE -1

RECURSIVE LStrip(_)
LStrip(s) == IF s # <<>> /\ Head(s) \in Whitespace THEN LStrip(Tail(s)) ELSE s
RECURSIVE RStrip(_)
RStrip(s) ==
    IF s # <<>> /\ s[Len(s)] \in Whitespace THEN RStrip(SubSeq(s, 1, Len(s) - 1)) ELSE s
Strip(s) == RStrip(LStrip(s))

\* The digits of an int() literal: digits, single underscores only between digits.
DigitsOk(s) ==
    /\ s # <<>>
    /\ IsDigit(s[1])
    /\ IsDigit(s[Len(s)])
    /\ \A i \in 1..Len(s) : IsDigit(s[i]) \/ s[i] = "_"
    /\ \A i \in 1..(Len(s) - 1) : ~(s[i] = "_" /\ s[i + 1] = "_")

RECURSIVE DigitsValue(_, _)
DigitsValue(s, acc) ==
    IF s = <<>> THEN acc
    ELSE IF Head(s) = "_" THEN DigitsValue(Tail(s), acc)
    ELSE DigitsValue(Tail(s), 10 * acc + DigitVal(Head(s)))

\* int(text): ok is FALSE where Python raises ValueError
PyInt(text) ==
    LET t == Strip(text)
        signed == t # <<>> /\ Head(t) \in {"+", "-"}
        body == IF signed THEN Tail(t) ELSE t
    IN  IF DigitsOk(body)
        THEN [ok |-> TRUE,
              val |-> IF signed /\ Head(t) = "-" THEN 0 - DigitsValue(body, 0)
                      ELSE DigitsValue(body, 0)]
        ELSE [ok |-> FALSE, val |-> 0]

RECURSIVE NatToStr(_)
NatToStr(n) ==
    IF n < 10 THEN <<DigitChars[n + 1]>>
    ELSE Append(NatToStr(n \div 10), DigitChars[(n % 10) + 1])
\* str(n) of an int
IntToStr(n) == IF n < 0 THEN <<"-">> \o NatToStr(0 - n) ELSE NatToStr(n)
\* str(cell) of a list cell
CellToStr(cell) == IF IsInt(cell) THEN IntToStr(cell.int) ELSE cell.str

\* s.split(sep) for a one-character sep: the pieces between the separators
RECURSIVE Split(_, _)
Split(s, sep) ==
    IF ~Contains(s, sep) THEN <<s>>
    ELSE LET i == CHOOSE k \in 1..Len(s) : s[k] = sep /\ \A j \in 1..(k - 1) : s[j] # sep
         IN  <<SubSeq(s, 1, i - 1)>> \o Split(SubSeq(s, i + 1, Len(s)), sep)

\* s.split(): the maximal runs of non-whitespace characters
RECURSIVE SplitWhitespace(_)
SplitWhitespace(s) ==
    LET t == LStrip(s)
    IN  IF t = <<>> THEN <<>>
        ELSE LET n == CHOOSE k \in 1..Len(t) :
                          /\ \A j \in 1..k : t[j] \notin Whitespace
                          /\ (k = Len(t) \/ t[k + 1] \in Whitespace)
             IN  <<SubSeq(t, 1, n)>> \o SplitWhitespace(SubSeq(t, n + 1, Len(t)))

\* s.startswith(p)
StartsWith(s, p) == Len(p) <= Len(s) /\ SubSeq(s, 1, Len(p)) = p

\* s.replace(old, new): every non-overlapping occurrence, left to right
RECURSIVE Replace(_, _, _)
Replace(s, old, new) ==
    IF s = <<>> THEN <<>>
    ELSE IF StartsWith(s, old) THEN new \o Replace(SubSeq(s, Len(old) + 1, Len(s)), old, new)
    ELSE <<Head(s)>> \o Replace(Tail(s), old, new)

\* sep.join(parts)
RECURSIVE Join(_, _)
Join(sep, parts) ==
    IF parts = <<>> THEN <<>>
    ELSE IF Len(parts) = 1 THEN parts[1]
    ELSE parts[1] \o sep \o Join(sep, Tail(parts))

\* s.ljust(width): padded with spaces on the right, never cut
RECURSIVE Ljust(_, _)
Ljust(s, width) == IF Len(s) >= width THEN s ELSE Ljust(Append(s, " "), width)

\* a % b of Python, b # 0: the result takes the sign of the divisor
PyMod(a, b) ==
    IF b > 0 THEN a % b
    ELSE LET r == a % (0 - b) IN IF r = 0 THEN 0 ELSE r + b

\* list[0::step] of a non-empty list, step # 0
Stride(list, step) ==
    IF step < 0 THEN <<list[1]>>
    ELSE [k \in 1..(((Len(list) - 1) \div step) + 1) |-> list[(k - 1) * step + 1]]

\* list.sort() of a list of ints: ascending
RECURSIVE Insert(_, _)
Insert(sorted, x) ==
    IF sorted = <<>> THEN <<x>>
    ELSE IF x.int < Head(sorted).int THEN <<x>> \o sorted
    ELSE <<Head(sorted)>> \o Insert(Tail(sorted), x)
RECURSIVE Sort(_)
Sort(list) == IF list = <<>> THEN <<>> ELSE Insert(Sort(SubSeq(list, 1, Len(list) - 1)), list[Len(list)])

-----------------------------------------------------------------------------
(* config.py                                                                *)

\* [i for i in range(lo, hi)]
RangeList(lo, hi) == [k \in 1..(hi - lo) |-> I(lo + k - 1)]

ALLOWED_VALUES ==
    [minute |-> RangeList(0, 60),
     hour |-> RangeList(0, 24),
     day_of_month |-> RangeList(1, 32),
     month |-> RangeList(1, 13),
     day_of_week |-> RangeList(1, 8)]

ALLOWED_CHARS ==
    [minute |-> <<",", "-", "*", "/">>,
     hour |-> <<",", "-", "*", "/">>,
     day_of_month |-> <<",", "-", "*", "?", "/", "W">>,
     month |-> <<",", "-", "*", "/">>,
     day_of_week |-> <<",", "-", "*", "?", "/">>]

DAY_NAMES ==
    <<<<"S", "U", "N">>,
      <<"M", "O", "N">>,
      <<"T", "U", "E">>,
      <<"W", "E", "D">>,
      <<"T", "H", "U">>,
      <<"F", "R", "I">>,
      <<"S", "A", "T">>>>

MONTH_NAMES ==
    <<<<"J", "A", "N">>,
      <<"F", "E", "B">>,
      <<"M", "A", "R">>,
      <<"A", "P", "R">>,
      <<"M", "A", "Y">>,
      <<"J", "U", "N">>,
      <<"J", "U", "L">>,
      <<"A", "U", "G">>,
      <<"S", "E", "P">>,
      <<"O", "C", "T">>,
      <<"N", "O", "V">>,
      <<"D", "E", "C">>>>

-----------------------------------------------------------------------------
(* c_parser.py: the exceptions it raises and their messages                 *)

InvalidCronExpressionError == "InvalidCronExpressionError"
InvalidCronValueError == "InvalidCronValueError"
\* the exceptions derived from ValidationError
ValidationErrors == {InvalidCronExpressionError, InvalidCronValueError}
\* raised by Python itself; the parser does not catch them
ValueError == "ValueError"
ZeroDivisionError == "ZeroDivisionError"

MsgWeekdayFormat == "Please enter a weekday expression in the format <day of month>W"
MsgNotAccounted == "The expression entered is invalid or not yet accounted for"
MsgFieldValue == "Please enter a valid value for the field"
MsgWeekdayInteger ==
    "Please enter an integer for the day of month part of the weekday expression"
MsgWeekdayDay == "Please enter a valid day of the month"
MsgListElement ==
    "Please enter a list expression with either comma separated integers or ranges"
MsgRangeFormat == "Please enter a range in the format n-k where n and k are integers"
MsgRangeOrder == "Please enter a range where the start value is less than the end value"
MsgStepIncrement == "Please enter an integer increment step value"
MsgStepStart == "Please enter a step start value containing a digit, * or range"
MsgStepNotAllowed == "The step start expression is not in the allowed values"
MsgLineFormat ==
    "Please parse an argument in the format <minute> <hour> <day of month> <month> <day of week> <command>"
\* the messages of the exceptions Python raises
MsgUnpack == "too many values to unpack (expected 2)"
MsgNotInList == "x is not in list"
MsgModuloByZero == "integer modulo by zero"
MsgSliceStep == "slice step cannot be zero"

-----------------------------------------------------------------------------
(* c_parser.py: the syntax-form handlers                                    *)

WeekdayLabel(day) ==
    <<"N", "e", "a", "r", "e", "s", "t", " ", "w", "e", "e", "k", "d", "a", "y", " ", "t", "o", " ", "t", "h", "e", " ">>
    \o IntToStr(day) \o
    <<" ", "o", "f", " ", "t", "h", "e", " ", "m", "o", "n", "t", "h">>

\* a faulty weekday: the day is not looked up in the allowed values
get_nearest_weekday_unchecked(day_of_month, allowed_values) ==
    LET day == PyInt(day_of_month)
    IN  IF ~day.ok THEN Raise(InvalidCronValueError, MsgWeekdayInteger)
        ELSE Ok(WeekdayLabel(day.val))

get_nearest_weekday(day_of_month, allowed_values) ==
    LET day == PyInt(day_of_month)
    IN  IF ~day.ok THEN Raise(InvalidCronValueError, MsgWeekdayInteger)
        ELSE IF ~In(I(day.val), allowed_values) THEN Raise(InvalidCronValueError, MsgWeekdayDay)
        ELSE Ok(WeekdayLabel(day.val))

\* allowed_values[start_index:end_index + 1], Python's slice of 0-based indexes
Slice(list, from, to) == SubSeq(list, from + 1, IF to < Len(list) THEN to ELSE Len(list))

\* a faulty range: the slice stops before the end value
generate_range_open(start, end, allowed_values) ==
    LET s == PyInt(start)
        e == PyInt(end)
    IN  IF ~s.ok \/ ~e.ok THEN Raise(InvalidCronExpressionError, MsgRangeFormat)
        ELSE IF e.val < s.val THEN Raise(InvalidCronValueError, MsgRangeOrder)
        ELSE LET start_index == Index(allowed_values, I(s.val))
                 end_index == Index(allowed_values, I(e.val))
             IN  IF start_index < 0 \/ end_index < 0 THEN Raise(ValueError, MsgNotInList)
                 ELSE Ok(Slice(allowed_values, start_index, end_index))

generate_range(start, end, allowed_values) ==
    LET s == PyInt(start)
        e == PyInt(end)
    IN  IF ~s.ok \/ ~e.ok THEN Raise(InvalidCronExpressionError, MsgRangeFormat)
        ELSE IF e.val < s.val THEN Raise(InvalidCronValueError, MsgRangeOrder)
        ELSE LET start_index == Index(allowed_values, I(s.val))
                 end_index == Index(allowed_values, I(e.val))
             IN  IF start_index < 0 \/ end_index < 0 THEN Raise(ValueError, MsgNotInList)
                 ELSE Ok(Slice(allowed_values, start_index, end_index + 1))

\* the loop of expand_list_values: output after the elements, or the first failure
RECURSIVE expand_list_loop(_, _, _)
expand_list_loop(elements, out, allowed_values) ==
    IF elements = <<>> THEN Ok(out)
    ELSE LET value == Head(elements)
         IN  IF Contains(value, "-")
             THEN LET parts == Split(value, "-")
                  IN  IF Len(parts) # 2 THEN Raise(ValueError, MsgUnpack)
                      ELSE LET r == generate_range(parts[1], parts[2], allowed_values)
                           IN  IF r.status # "ok" THEN r
                               ELSE expand_list_loop(Tail(elements), out \o r.value,
                                                     allowed_values)
             ELSE LET v == PyInt(value)
                  IN  IF ~v.ok THEN Raise(InvalidCronValueError, MsgListElement)
                      ELSE expand_list_loop(Tail(elements), Append(out, I(v.val)),
                                            allowed_values)

\* a faulty list expansion: the output is returned as collected, unsorted
expand_list_values_unsorted(elements, allowed_values) ==
    expand_list_loop(elements, <<>>, allowed_values)

expand_list_values(elements, allowed_values) ==
    LET r == expand_list_loop(elements, <<>>, allowed_values)
    IN  IF r.status # "ok" THEN r ELSE Ok(Sort(r.value))

\* [i for i in values if i % increment_val == 0]
Divisible(values, increment_val) ==
    IF values # <<>> /\ increment_val = 0 THEN Raise(ZeroDivisionError, MsgModuloByZero)
    ELSE Ok(SelectSeq(values, LAMBDA c : PyMod(c.int, increment_val) = 0))

\* a faulty "*" step: every increment_val-th domain value by position
step_all_by_position(increment_val, allowed_values) ==
    IF increment_val = 0 THEN Raise(ZeroDivisionError, MsgModuloByZero)
    ELSE Ok(Stride(allowed_values, IF increment_val < 0 THEN 0 - increment_val
                                   ELSE increment_val))

\* parse_step, start_exp == "*"
step_all(increment_val, allowed_values) == Divisible(allowed_values, increment_val)

\* a faulty range step: the values of the range divisible by increment_val
step_range_by_value(start_exp, increment_val, allowed_values) ==
    LET parts == Split(start_exp, "-")
    IN  IF Len(parts) # 2 THEN Raise(ValueError, MsgUnpack)
        ELSE LET ranges == generate_range(parts[1], parts[2], allowed_values)
             IN  IF ranges.status # "ok" THEN ranges
                 ELSE IF increment_val = 0 THEN Raise(ValueError, MsgSliceStep)
                 ELSE Divisible(ranges.value, increment_val)

\* parse_step, "-" in start_exp
step_range(start_exp, increment_val, allowed_values) ==
    LET parts == Split(start_exp, "-")
    IN  IF Len(parts) # 2 THEN Raise(ValueError, MsgUnpack)
        ELSE LET ranges == generate_range(parts[1], parts[2], allowed_values)
             IN  IF ranges.status # "ok" THEN ranges
                 ELSE IF increment_val = 0 THEN Raise(ValueError, MsgSliceStep)
                 ELSE Ok(Stride(ranges.value, increment_val))

\* a faulty start step: the values after the start value's position
step_from_after(start_exp, increment_val, allowed_values) ==
    LET s == PyInt(start_exp)
    IN  IF ~s.ok THEN Raise(InvalidCronValueError, MsgStepStart)
        ELSE LET start_index == Index(allowed_values, I(s.val))
             IN  IF start_index < 0 THEN Raise(InvalidCronValueError, MsgStepNotAllowed)
                 ELSE Divisible(Slice(allowed_values, start_index + 1, Len(allowed_values)),
                                increment_val)

\* parse_step, a start value
step_from(start_exp, increment_val, allowed_values) ==
    LET s == PyInt(start_exp)
    IN  IF ~s.ok THEN Raise(InvalidCronValueError, MsgStepStart)
        ELSE LET start_index == Index(allowed_values, I(s.val))
             IN  IF start_index < 0 THEN Raise(InvalidCronValueError, MsgStepNotAllowed)
                 ELSE Divisible(Slice(allowed_values, start_index, Len(allowed_values)),
                                increment_val)

parse_step(start_exp, increment, allowed_values) ==
    LET inc == PyInt(increment)
    IN  IF ~inc.ok THEN Raise(InvalidCronValueError, MsgStepIncrement)
        ELSE IF start_exp = <<"*">> THEN step_all(inc.val, allowed_values)
        ELSE IF Contains(start_exp, "-") THEN step_range(start_exp, inc.val, allowed_values)
        ELSE step_from(start_exp, inc.val, allowed_values)

-----------------------------------------------------------------------------
(* c_parser.py: the field expression evaluator                              *)

weekday_expression(expr, allowed_values) ==
    LET day_of_month == Split(expr, "W")
    IN  IF Len(day_of_month) # 2 THEN Raise(InvalidCronExpressionError, MsgWeekdayFormat)
        ELSE LET r == get_nearest_weekday(day_of_month[1], allowed_values)
             IN  IF r.status # "ok" THEN r ELSE Ok(<<S(r.value)>>)

step_expression(expr, allowed_values) ==
    LET parts == Split(expr, "/")
    IN  IF Len(parts) # 2 THEN Raise(ValueError, MsgUnpack)
        ELSE parse_step(parts[1], parts[2], allowed_values)

range_expression(expr, allowed_values) ==
    LET parts == Split(expr, "-")
    IN  IF Len(parts) # 2 THEN Raise(ValueError, MsgUnpack)
        ELSE generate_range(parts[1], parts[2], allowed_values)

integer_expression(expr, allowed_values) ==
    LET v == PyInt(expr)
    IN  IF ~v.ok THEN Raise(InvalidCronExpressionError, MsgNotAccounted)
        ELSE IF ~In(I(v.val), allowed_values)
        THEN Raise(InvalidCronExpressionError, MsgFieldValue)
        ELSE Ok(<<I(v.val)>>)

get_expression_values(expr, allowed_chars, allowed_values) ==
    IF Contains(expr, "W") /\ In("W", allowed_chars)
    THEN weekday_expression(expr, allowed_values)
    ELSE IF Contains(expr, "/") /\ In("/", allowed_chars)
    THEN step_expression(expr, allowed_values)
    ELSE IF Contains(expr, ",") /\ In(",", allowed_chars)
    THEN expand_list_values(Split(expr, ","), allowed_values)
    ELSE IF Contains(expr, "-") /\ In("-", allowed_chars)
    THEN range_expression(expr, allowed_values)
    ELSE IF expr = <<"*">> /\ In("*", allowed_chars)
    THEN Ok(allowed_values)
    ELSE IF expr = <<"?">> /\ In("?", allowed_chars)
    THEN Ok(<<S(<<"N", "/", "A">>)>>)
    ELSE integer_expression(expr, allowed_values)

-----------------------------------------------------------------------------
(* c_parser.py: the cron expression parser and the table renderer           *)

\* a faulty pairing: each name with its 0-based position in the list of names
ZipPositions(names, values) ==
    [k \in 1..(IF Len(names) < Len(values) THEN Len(names) ELSE Len(values)) |->
        [name |-> names[k], num |-> I(k - 1)]]

\* dict(zip(names, values)): the (name, number) pairs in insertion order
Zip(names, values) ==
    [k \in 1..(IF Len(names) < Len(values) THEN Len(names) ELSE Len(values)) |->
        [name |-> names[k], num |-> values[k]]]

RECURSIVE names_to_nums(_, _)
names_to_nums(expr, in_map) ==
    IF in_map = <<>> THEN expr
    ELSE names_to_nums(Replace(expr, Head(in_map).name, CellToStr(Head(in_map).num)),
                       Tail(in_map))

\* the field names in the order of the line
FieldOrder == <<"minute", "hour", "day_of_month", "month", "day_of_week">>

\* the keys of the dict parse_cron returns, in insertion order
FieldKeys ==
    <<<<"m", "i", "n", "u", "t", "e">>,
      <<"h", "o", "u", "r">>,
      <<"d", "a", "y", "_", "o", "f", "_", "m", "o", "n", "t", "h">>,
      <<"m", "o", "n", "t", "h">>,
      <<"d", "a", "y", "_", "o", "f", "_", "w", "e", "e", "k">>,
      <<"c", "o", "m", "m", "a", "n", "d">>>>

\* a faulty unpacking: the first six of six or more tokens are taken
UnpackSixOrMore(tokens) == Len(tokens) >= 6

\* cron_exp.split() unpacked into six names: FALSE where Python raises ValueError
UnpackSix(tokens) == Len(tokens) = 6

\* the dict parse_cron builds from the six tokens: the five fields are evaluated
\* in the order of the dict and the first failure ends the call.  (Each local
\* name is bound as the one element of a singleton set, so that its value is
\* computed once, as an assignment does.)
parse_fields(tokens, day_of_week_num, month_num, allowed) ==
    CHOOSE out \in
        { IF \E k \in 1..5 : evaluated[k].status # "ok"
          THEN evaluated[CHOOSE k \in 1..5 :
                             /\ evaluated[k].status # "ok"
                             /\ \A j \in 1..(k - 1) : evaluated[j].status = "ok"]
          ELSE Ok([k \in 1..6 |->
                      [key |-> FieldKeys[k],
                       values |-> IF k = 6 THEN <<S(tokens[6])>>
                                  ELSE evaluated[k].value]])
          : evaluated \in
              {[k \in 1..5 |->
                   get_expression_values(
                       <<tokens[1], tokens[2], tokens[3], month_num, day_of_week_num>>[k],
                       ALLOWED_CHARS[FieldOrder[k]], allowed[FieldOrder[k]])]} }
        : TRUE

\* parse_cron with the module's ALLOWED_VALUES holding the lists of allowed
parse_cron_given(line, allowed) ==
    CHOOSE out \in
        { IF ~UnpackSix(tokens) THEN Raise(InvalidCronExpressionError, MsgLineFormat)
          ELSE CHOOSE r \in
                 { parse_fields(tokens, day_of_week_num, month_num, allowed)
                   : day_of_week_num \in
                         {names_to_nums(tokens[5], Zip(DAY_NAMES, allowed.day_of_week))},
                     month_num \in
                         {names_to_nums(tokens[4], Zip(MONTH_NAMES, allowed.month))} }
                 : TRUE
          : tokens \in {SplitWhitespace(line)} }
        : TRUE

\* parse_cron reads the global ALLOWED_VALUES when it is called
parse_cron(line) == parse_cron_given(line, registry)

\* get_expression_values returns the very list it was passed (the "all" case); in
\* every other case the list it returns is a new one
returns_allowed_values(expr, allowed_chars) ==
    /\ ~(Contains(expr, "W") /\ In("W", allowed_chars))
    /\ ~(Contains(expr, "/") /\ In("/", allowed_chars))
    /\ ~(Contains(expr, ",") /\ In(",", allowed_chars))
    /\ ~(Contains(expr, "-") /\ In("-", allowed_chars))
    /\ expr = <<"*">> /\ In("*", allowed_chars)

\* the positions of the dict parse_cron returns whose list is the list of
\* ALLOWED_VALUES itself
shared_lists(line, allowed) ==
    LET tokens == SplitWhitespace(line)
        exprs == <<tokens[1], tokens[2], tokens[3],
                   names_to_nums(tokens[4], Zip(MONTH_NAMES, allowed.month)),
                   names_to_nums(tokens[5], Zip(DAY_NAMES, allowed.day_of_week))>>
    IN  IF ~UnpackSix(tokens) THEN {}
        ELSE {k \in 1..5 : returns_allowed_values(exprs[k], ALLOWED_CHARS[FieldOrder[k]])}

\* str(i) for i in values
CellStrings(values) == [k \in 1..Len(values) |-> CellToStr(values[k])]

\* one row of the table: the padded field name, a space, the cells
table_row(entry, width) ==
    Ljust(Replace(entry.key, <<"_">>, <<" ">>), width)
        \o <<" ">> \o Join(<<" ">>, CellStrings(entry.values))

\* the pieces generate_table appends for the entries from position i (0-based) on
RECURSIVE table_pieces(_, _, _)
table_pieces(data, i, width) ==
    IF i >= Len(data) THEN <<>>
    ELSE <<table_row(data[i + 1], width)>>
         \o (IF i # Len(data) - 1 THEN <<<<"\n">>>> ELSE <<>>)
         \o table_pieces(data, i + 1, width)

\* a faulty table: a newline after every row, the last one too
generate_table_newline_each(data, width) ==
    Join(<<>>, table_pieces(data, 0, width)) \o <<"\n">>

generate_table(data, width) ==
    Join(<<>>, table_pieces(data, 0, width))

-----------------------------------------------------------------------------
(* cron_parser.py: the single-file implementation.  Its functions raise     *)
(* Exception; where a name is also a name of c_parser.py it is written with *)
(* the prefix legacy_.                                                      *)

PlainException == "Exception"
MsgLegacyStepIncrement == "Please enter an integer step value"
MsgLegacyStepStart == "Please enter a start value containing a digit, * or range"

parse_weekday(day_of_month, allowed_values) ==
    LET day == PyInt(day_of_month)
    IN  IF ~day.ok THEN Raise(PlainException, MsgWeekdayInteger)
        ELSE IF ~In(I(day.val), allowed_values) THEN Raise(PlainException, MsgWeekdayDay)
        ELSE Ok(<<S(<<"N", "e", "a", "r", "e", "s", "t", " ", "w", "e", "e", "k", "d", "a", "y", " ", "t", "o", " ", "t", "h", "e", " ">>
                     \o IntToStr(day.val)
                     \o <<" ", "o", "f", " ", "t", "h", "e", " ", "m", "o", "n", "t", "h">>)>>)

parse_range(start, end, allowed_values) ==
    LET s == PyInt(start)
        e == PyInt(end)
    IN  IF ~s.ok \/ ~e.ok THEN Raise(PlainException, MsgRangeFormat)
        ELSE IF e.val < s.val THEN Raise(PlainException, MsgRangeOrder)
        ELSE IF ~In(I(s.val), allowed_values) \/ ~In(I(e.val), allowed_values)
        THEN Raise(ValueError, MsgNotInList)
        ELSE Ok(Slice(allowed_values, Index(allowed_values, I(s.val)),
                      Index(allowed_values, I(e.val)) + 1))

\* the loop of parse_list: output after the elements, or the first failure
RECURSIVE parse_list_loop(_, _, _)
parse_list_loop(elements, out, allowed_values) ==
    IF elements = <<>> THEN Ok(out)
    ELSE IF Contains(Head(elements), "-")
    THEN IF Len(Split(Head(elements), "-")) # 2 THEN Raise(ValueError, MsgUnpack)
         ELSE LET r == parse_range(Split(Head(elements), "-")[1],
                                   Split(Head(elements), "-")[2], allowed_values)
              IN  IF r.status # "ok" THEN r
                  ELSE parse_list_loop(Tail(elements), out \o r.value, allowed_values)
    ELSE IF ~PyInt(Head(elements)).ok THEN Raise(PlainException, MsgListElement)
    ELSE parse_list_loop(Tail(elements), Append(out, I(PyInt(Head(elements)).val)),
                         allowed_values)

parse_list(elements, allowed_values) ==
    LET r == parse_list_loop(elements, <<>>, allowed_values)
    IN  IF r.status # "ok" THEN r ELSE Ok(Sort(r.value))

legacy_parse_step(start_exp, increment_exp, allowed_values) ==
    LET inc == PyInt(increment_exp)
        start == PyInt(start_exp)
    IN  IF ~inc.ok THEN Raise(PlainException, MsgLegacyStepIncrement)
        ELSE IF start_exp = <<"*">>
        THEN IF allowed_values # <<>> /\ inc.val = 0
             THEN Raise(ZeroDivisionError, MsgModuloByZero)
             ELSE Ok(SelectSeq(allowed_values, LAMBDA i : PyMod(i.int, inc.val) = 0))
        ELSE IF Contains(start_exp, "-")
        THEN IF Len(Split(start_exp, "-")) # 2 THEN Raise(ValueError, MsgUnpack)
             ELSE LET ranges == parse_range(Split(start_exp, "-")[1],
                                            Split(start_exp, "-")[2], allowed_values)
                  IN  IF ranges.status # "ok" THEN ranges
                      ELSE IF inc.val = 0 THEN Raise(ValueError, MsgSliceStep)
                      ELSE Ok(Stride(ranges.value, inc.val))
        ELSE IF ~start.ok THEN Raise(PlainException, MsgLegacyStepStart)
        ELSE IF ~In(I(start.val), allowed_values) THEN Raise(ValueError, MsgNotInList)
        ELSE LET rest == Slice(allowed_values, Index(allowed_values, I(start.val)),
                               Len(allowed_values))
             IN  IF rest # <<>> /\ inc.val = 0 THEN Raise(ZeroDivisionError, MsgModuloByZero)
                 ELSE Ok(SelectSeq(rest, LAMBDA i : PyMod(i.int, inc.val) = 0))

parse_expression(expr, allowed_chars, allowed_values) ==
    IF Contains(expr, "W") /\ In("W", allowed_chars)
    THEN IF Len(Split(expr, "W")) # 2 THEN Raise(PlainException, MsgWeekdayFormat)
         ELSE parse_weekday(Split(expr, "W")[1], allowed_values)
    ELSE IF Contains(expr, "/") /\ In("/", allowed_chars)
    THEN IF Len(Split(expr, "/")) # 2 THEN Raise(ValueError, MsgUnpack)
         ELSE legacy_parse_step(Split(expr, "/")[1], Split(expr, "/")[2], allowed_values)
    ELSE IF Contains(expr, ",") /\ In(",", allowed_chars)
    THEN parse_list(Split(expr, ","), allowed_values)
    ELSE IF Contains(expr, "-") /\ In("-", allowed_chars)
    THEN IF Len(Split(expr, "-")) # 2 THEN Raise(ValueError, MsgUnpack)
         ELSE parse_range(Split(expr, "-")[1], Split(expr, "-")[2], allowed_values)
    ELSE IF expr = <<"*">> /\ In("*", allowed_chars)
    THEN Ok(allowed_values)
    ELSE IF expr = <<"?">> /\ In("?", allowed_chars)
    THEN Ok(<<S(<<"N", "/", "A">>)>>)
    ELSE IF ~PyInt(expr).ok THEN Raise(PlainException, MsgNotAccounted)
    ELSE IF ~In(I(PyInt(expr).val), allowed_values) THEN Raise(PlainException, MsgFieldValue)
    ELSE Ok(<<I(PyInt(expr).val)>>)

\* the dicts and lists parse_cron of cron_parser.py builds anew in every call
legacy_allowed_values ==
    [minute |-> [k \in 1..60 |-> I(k - 1)],
     hour |-> [k \in 1..24 |-> I(k - 1)],
     day_of_month |-> [k \in 1..31 |-> I(k)],
     month |-> [k \in 1..12 |-> I(k)],
     day_of_week |-> [k \in 1..7 |-> I(k)]]

legacy_allowed_chars ==
    [minute |-> <<",", "-", "*", "/">>,
     hour |-> <<",", "-", "*", "/">>,
     day_of_month |-> <<",", "-", "*", "?", "/", "W">>,
     month |-> <<",", "-", "*", "/">>,
     day_of_week |-> <<",", "-", "*", "?", "/">>]

legacy_day_names ==
    <<<<"S", "U", "N">>, <<"M", "O", "N">>, <<"T", "U", "E">>, <<"W", "E", "D">>,
      <<"T", "H", "U">>, <<"F", "R", "I">>, <<"S", "A", "T">>>>

legacy_month_names ==
    <<<<"J", "A", "N">>, <<"F", "E", "B">>, <<"M", "A", "R">>, <<"A", "P", "R">>,
      <<"M", "A", "Y">>, <<"J", "U", "N">>, <<"J", "U", "L">>, <<"A", "U", "G">>,
      <<"S", "E", "P">>, <<"O", "C", "T">>, <<"N", "O", "V">>, <<"D", "E", "C">>>>

\* names_to_nums of cron_parser.py, over the names and the numbers zipped
RECURSIVE legacy_names_to_nums(_, _, _)
legacy_names_to_nums(expr, names, nums) ==
    IF names = <<>> \/ nums = <<>> THEN expr
    ELSE legacy_names_to_nums(Replace(expr, Head(names), CellToStr(Head(nums))),
                              Tail(names), Tail(nums))

\* the dict parse_cron of cron_parser.py returns for the six tokens: the entries
\* are evaluated in order and the first failure ends the call
legacy_output(tokens, m, dow) ==
    CHOOSE out \in
        { IF \E k \in 1..5 : parsed[k].status # "ok"
          THEN parsed[CHOOSE k \in 1..5 :
                          /\ parsed[k].status # "ok"
                          /\ \A j \in 1..(k - 1) : parsed[j].status = "ok"]
          ELSE Ok(<<[key |-> <<"m", "i", "n", "u", "t", "e">>, values |-> parsed[1].value],
                    [key |-> <<"h", "o", "u", "r">>, values |-> parsed[2].value],
                    [key |-> <<"d", "a", "y", "_", "o", "f", "_", "m", "o", "n", "t", "h">>,
                     values |-> parsed[3].value],
                    [key |-> <<"m", "o", "n", "t", "h">>, values |-> parsed[4].value],
                    [key |-> <<"d", "a", "y", "_", "o", "f", "_", "w", "e", "e", "k">>,
                     values |-> parsed[5].value],
                    [key |-> <<"c", "o", "m", "m", "a", "n", "d">>,
                     values |-> <<S(tokens[6])>>]>>)
          : parsed \in
              {[k \in 1..5 |->
                   parse_expression(
                       <<tokens[1], tokens[2], tokens[3], m, dow>>[k],
                       legacy_allowed_chars[FieldOrder[k]],
                       legacy_allowed_values[FieldOrder[k]])]} }
        : TRUE

legacy_parse_cron(cron) ==
    CHOOSE out \in
        { IF Len(tokens) # 6 THEN Raise(PlainException, MsgLineFormat)
          ELSE CHOOSE r \in
                 { legacy_output(tokens, m, dow)
                   : dow \in {legacy_names_to_nums(tokens[5], legacy_day_names,
                                                   legacy_allowed_values.day_of_week)},
                     m \in {legacy_names_to_nums(tokens[4], legacy_month_names,
                                                 legacy_allowed_values.month)} }
                 : TRUE
          : tokens \in {SplitWhitespace(cron)} }
        : TRUE

\* generate_table of cron_parser.py: every row is followed by a newline
RECURSIVE legacy_generate_table_from(_, _, _)
legacy_generate_table_from(data, i, col_width_arg) ==
    IF i > Len(data) THEN <<>>
    ELSE Ljust(Replace(data[i].key, <<"_">>, <<" ">>), col_width_arg) \o <<" ">>
            \o Join(<<" ">>, [k \in 1..Len(data[i].values) |-> CellToStr(data[i].values[k])])
            \o <<"\n">>
            \o legacy_generate_table_from(data, i + 1, col_width_arg)

legacy_generate_table(data, col_width_arg) == legacy_generate_table_from(data, 1, col_width_arg)

-----------------------------------------------------------------------------
(* The caller: the expressions it builds and the calls it makes.            *)

FieldNames == {"minute", "hour", "day_of_month", "month", "day_of_week"}

First(f) == ALLOWED_VALUES[f][1].int
Last(f) == ALLOWED_VALUES[f][Len(ALLOWED_VALUES[f])].int
InDomain(f, n) == n \in First(f)..Last(f)

\* the numbers of the expressions drawn for field f: its domain and Slack beyond it
Nums(f) == (IF First(f) > Slack THEN First(f) - Slack ELSE 0)..(Last(f) + Slack)
Steps == (0 - MaxStep)..MaxStep
RawChars == {"0", "1", "7", "x", "W", "/", ",", "-", "*", "?"}
RawStrings == UNION {[1..n -> RawChars] : n \in 0..MaxLen}

ListNums(f) == First(f)..(First(f) + ListMax)
ListElems(f) ==
    {[kind |-> "int", a |-> a] : a \in ListNums(f)}
        \cup {[kind |-> "range", a |-> a, b |-> b] : a, b \in ListNums(f)}

Shapes(f) ==
    {[kind |-> "raw", text |-> t] : t \in RawStrings}
        \cup {[kind |-> "int", a |-> a] : a \in Nums(f)}
        \cup {[kind |-> "range", a |-> a, b |-> b] : a, b \in Nums(f)}
        \cup {[kind |-> "step_all", step |-> s] : s \in Steps}
        \cup {[kind |-> "step_from", a |-> a, step |-> s] : a \in Nums(f), s \in Steps}
        \cup {[kind |-> "step_range", a |-> a, b |-> b, step |-> s] :
                 a, b \in Nums(f), s \in 0..MaxStep}
        \cup {[kind |-> "weekday", a |-> a] : a \in Nums(f)}
        \cup {[kind |-> "list", elems |-> e] :
                 e \in UNION {[1..n -> ListElems(f)] : n \in 2..MaxElems}}

\* the text of an expression of the given shape, as the caller writes it
RECURSIVE Render(_)
Render(sh) ==
    CASE sh.kind = "raw" -> sh.text
      [] sh.kind = "int" -> IntToStr(sh.a)
      [] sh.kind = "range" -> IntToStr(sh.a) \o <<"-">> \o IntToStr(sh.b)
      [] sh.kind = "step_all" -> <<"*", "/">> \o IntToStr(sh.step)
      [] sh.kind = "step_from" -> IntToStr(sh.a) \o <<"/">> \o IntToStr(sh.step)
      [] sh.kind = "step_range" ->
            IntToStr(sh.a) \o <<"-">> \o IntToStr(sh.b) \o <<"/">> \o IntToStr(sh.step)
      [] sh.kind = "weekday" -> IntToStr(sh.a) \o <<"W">>
      [] sh.kind = "list" -> Join(<<",">>, [k \in 1..Len(sh.elems) |-> Render(sh.elems[k])])

\* a month or day-of-week expression in which names may stand for numbers:
\* x, or x-y, or x,y, or x/y, each of x and y written as a name where nx, ny say so
NamedShapes(n) ==
    {[kind |-> "named", form |-> "one", x |-> x, y |-> x, nx |-> TRUE, ny |-> TRUE] :
        x \in 1..n}
        \cup {[kind |-> "named", form |-> fm, x |-> x, y |-> y, nx |-> w[1], ny |-> w[2]] :
                 fm \in {"range", "list"}, x \in 1..n, y \in 1..n,
                 w \in {<<TRUE, TRUE>>, <<TRUE, FALSE>>, <<FALSE, TRUE>>}}
        \cup {[kind |-> "named", form |-> "step", x |-> x, y |-> y, nx |-> TRUE, ny |-> FALSE] :
                 x \in 1..n, y \in 1..MaxStep}

NamedSep(sh) ==
    CASE sh.form = "range" -> <<"-">>
      [] sh.form = "list" -> <<",">>
      [] sh.form = "step" -> <<"/">>

\* the text of a named expression, with the given names, and with numbers throughout
RenderNamed(sh, names) ==
    LET item(v, named) == IF named THEN names[v] ELSE IntToStr(v)
    IN  IF sh.form = "one" THEN item(sh.x, sh.nx)
        ELSE item(sh.x, sh.nx) \o NamedSep(sh) \o item(sh.y, sh.ny)
RenderNumeric(sh) ==
    IF sh.form = "one" THEN IntToStr(sh.x)
    ELSE IntToStr(sh.x) \o NamedSep(sh) \o IntToStr(sh.y)

\* the col_width a caller of generate_table leaves out
DefaultColWidth == 13
\* the most tokens of a drawn line of plain tokens
MaxTokens == 7

Command == <<"/", "u", "s", "r", "/", "b", "i", "n", "/", "f", "i", "n", "d">>
Separators == {<<" ">>, <<" ", " ">>, <<"\t">>}
Paddings == {<<>>, <<" ">>}
Widths == {3, DefaultColWidth}

\* the expressions a drawn six-token line takes for field f
SampleShapes(f) ==
    {[kind |-> "int", a |-> First(f)],
     [kind |-> "raw", text |-> <<"*">>],
     [kind |-> "raw", text |-> <<"?">>],
     [kind |-> "step_all", step |-> Last(f) + 1],
     [kind |-> "range", a |-> Last(f), b |-> Last(f) + 1],
     [kind |-> "weekday", a |-> First(f) + 5]}

LineShapes ==
    \* any number of plain tokens, with any whitespace between and around them
    {[kind |-> "count", tokens |-> t, sep |-> sp, pad |-> pd] :
        t \in UNION {[1..n -> {<<"1">>, <<"*">>}] : n \in 0..MaxTokens},
        sp \in Separators, pd \in Paddings}
    \* six tokens, each field drawn from its samples
        \cup {[kind |-> "fields", shapes |-> <<a, b, c, d, e>>] :
                 a \in SampleShapes("minute"), b \in SampleShapes("hour"),
                 c \in SampleShapes("day_of_month"), d \in SampleShapes("month"),
                 e \in SampleShapes("day_of_week")}
    \* six tokens, the one at position pos written with day or month names
        \cup {[kind |-> "names", pos |-> p, of |-> "day", named |-> nm] :
                 p \in 1..6, nm \in NamedShapes(Len(DAY_NAMES))}
        \cup {[kind |-> "names", pos |-> p, of |-> "month", named |-> nm] :
                 p \in 1..6, nm \in NamedShapes(Len(MONTH_NAMES))}

NamesOf(sh) == IF sh.of = "day" THEN DAY_NAMES ELSE MONTH_NAMES

\* the tokens of a line of the given shape, names written where the shape says so
LineTokens(sh) ==
    CASE sh.kind = "count" -> sh.tokens
      [] sh.kind = "fields" -> [k \in 1..5 |-> Render(sh.shapes[k])] \o <<Command>>
      [] sh.kind = "names" ->
            [k \in 1..6 |-> IF k = sh.pos THEN RenderNamed(sh.named, NamesOf(sh))
                            ELSE IF k = 6 THEN Command ELSE <<"1">>]

LineText(sh) ==
    IF sh.kind = "count" THEN sh.pad \o Join(sh.sep, sh.tokens) \o sh.pad
    ELSE Join(<<" ">>, LineTokens(sh))

NoShape == [kind |-> "none"]
NoOutcome == [status |-> "none", value |-> <<>>, exc |-> "", msg |-> ""]

\* the most calls of parse_cron in a sequence of calls
MaxCalls == 2

\* the lines of a sequence of calls: every field "*", every field its first value,
\* steps and a range, a day name, and a line of five tokens
CallLines ==
    {[kind |-> "fields", shapes |-> [k \in 1..5 |-> [kind |-> "raw", text |-> <<"*">>]]],
     [kind |-> "fields", shapes |-> [k \in 1..5 |-> [kind |-> "int", a |-> First(FieldOrder[k])]]],
     [kind |-> "fields",
      shapes |-> <<[kind |-> "step_all", step |-> MaxStep], [kind |-> "raw", text |-> <<"*">>],
                   [kind |-> "range", a |-> 1, b |-> 2], [kind |-> "raw", text |-> <<"*">>],
                   [kind |-> "step_from", a |-> 1, step |-> 1]>>],
     [kind |-> "names", pos |-> 5, of |-> "day",
      named |-> [kind |-> "named", form |-> "one", x |-> 2, y |-> 2, nx |-> TRUE, ny |-> TRUE]],
     [kind |-> "count", tokens |-> [k \in 1..5 |-> <<"*">>], sep |-> <<" ">>, pad |-> <<>>]}

\* what a caller does to a list it was handed back
Modifications == {"append", "clear"}

Init ==
    /\ pc = "start"
    /\ shape = NoShape
    /\ field = ""
    /\ expression = <<>>
    /\ result = NoOutcome
    /\ cron_exp = <<>>
    /\ output = NoOutcome
    /\ col_width = 0
    /\ table = <<>>
    /\ registry = ALLOWED_VALUES
    /\ shared = {}
    /\ calls = 0
    /\ legacy_result = NoOutcome
    /\ legacy_table = <<>>

\* a direct call of get_expression_values for one field
Evaluate ==
    /\ pc = "start"
    /\ \E f \in FieldNames :
         \E sh \in Shapes(f) :
            /\ field' = f
            /\ shape' = sh
            /\ expression' = Render(sh)
            /\ result' = get_expression_values(Render(sh), ALLOWED_CHARS[f], ALLOWED_VALUES[f])
    /\ pc' = "evaluated"
    /\ UNCHANGED <<cron_exp, output, col_width, table,
                   registry, shared, calls, legacy_result, legacy_table>>

\* a call of parse_cron
ParseCron ==
    /\ pc = "start"
    /\ \E sh \in LineShapes :
         /\ shape' = sh
         /\ cron_exp' = LineText(sh)
         /\ output' = parse_cron(LineText(sh))
    /\ pc' = IF output'.status = "ok" THEN "parsed" ELSE "failed"
    /\ shared' = IF output'.status = "ok" THEN shared_lists(cron_exp', registry) ELSE {}
    /\ calls' = calls + 1
    /\ UNCHANGED <<field, expression, result, col_width, table,
                   registry, legacy_result, legacy_table>>

\* a call of generate_table on the dict parse_cron returned
GenerateTable ==
    /\ pc = "parsed"
    /\ \E w \in Widths :
         /\ col_width' = w
         /\ table' = generate_table(output.value, w)
    /\ pc' = "printed"
    /\ UNCHANGED <<shape, field, expression, result, cron_exp, output,
                   registry, shared, calls, legacy_result, legacy_table>>

\* a call of parse_cron of cron_parser.py with the line parse_cron was called with
LegacyParseCron ==
    /\ pc \in {"parsed", "failed"}
    /\ legacy_result = NoOutcome
    /\ legacy_result' = legacy_parse_cron(cron_exp)
    /\ UNCHANGED <<pc, shape, field, expression, result, cron_exp, output, col_width, table,
                   registry, shared, calls, legacy_table>>

\* a call of generate_table of cron_parser.py on the dict and with the col_width
\* generate_table was called with
LegacyGenerateTable ==
    /\ pc = "printed"
    /\ legacy_table = <<>>
    /\ legacy_table' = legacy_generate_table(output.value, col_width)
    /\ UNCHANGED <<pc, shape, field, expression, result, cron_exp, output, col_width, table,
                   registry, shared, calls, legacy_result>>

\* a call of parse_cron in a sequence of calls: the first, or one after another
\* call, after the caller modified what that call returned or not
ParseCronRepeated ==
    /\ pc \in {"start", "parsed", "failed", "modified"}
    /\ calls < MaxCalls
    /\ \E sh \in CallLines :
         /\ shape' = sh
         /\ cron_exp' = LineText(sh)
         /\ output' = parse_cron(LineText(sh))
    /\ pc' = IF output'.status = "ok" THEN "parsed" ELSE "failed"
    /\ shared' = IF output'.status = "ok" THEN shared_lists(cron_exp', registry) ELSE {}
    /\ calls' = calls + 1
    /\ UNCHANGED <<field, expression, result, col_width, table,
                   registry, legacy_result, legacy_table>>

\* the caller modifies a list of the dict it was handed back: values.append(99) or
\* values.clear().  A list that is a list of ALLOWED_VALUES is modified there too,
\* being the same object.
ModifyResult ==
    /\ pc = "parsed"
    /\ \E k \in 1..6, how \in Modifications :
         LET values == IF how = "append" THEN Append(output.value[k].values, I(99))
                       ELSE <<>>
         IN  /\ output' = [output EXCEPT !.value[k].values = values]
             /\ registry' = IF k \in shared
                            THEN [registry EXCEPT ![FieldOrder[k]] = values]
                            ELSE registry
    /\ pc' = "modified"
    /\ UNCHANGED <<shape, field, expression, result, cron_exp, col_width, table,
                   shared, calls, legacy_result, legacy_table>>

Next ==
    \/ Evaluate
    \/ ParseCron
    \/ GenerateTable
    \/ LegacyParseCron
    \/ LegacyGenerateTable
    \/ ParseCronRepeated
    \/ ModifyResult

Spec == Init /\ [][Next]_vars

\* the direct calls of the field expression evaluator alone
SpecEval == Init /\ [][Evaluate]_vars

\* the calls of the parser and the renderer alone
NextCron == ParseCron \/ GenerateTable
SpecCron == Init /\ [][NextCron]_vars

\* the two implementations called with the same arguments
NextBoth == ParseCron \/ LegacyParseCron \/ GenerateTable \/ LegacyGenerateTable
SpecBoth == Init /\ [][NextBoth]_vars

\* sequences of calls of parse_cron by a caller that modifies what it is handed back
NextCalls == ParseCronRepeated \/ ModifyResult
SpecCalls == Init /\ [][NextCalls]_vars

-----------------------------------------------------------------------------
(* Claims about parse_cron's handling of the line (checked under SpecCron). *)

Called == pc \in {"parsed", "failed", "printed"}

\* C1: parse_cron fails with the malformed-line error (InvalidCronExpressionError
\* carrying the "<minute> <hour> ... <command>" format message) and returns nothing
\* for every line the caller wrote with fewer or with more than six tokens, however
\* the tokens are separated and padded by whitespace; for a line of exactly six
\* tokens that error is never raised.
C1_SixTokens ==
    Called =>
        LET n == Len(LineTokens(shape))
        IN  /\ n # 6 => output = Raise(InvalidCronExpressionError, MsgLineFormat)
            /\ n = 6 => ~(output.status = "raise" /\ output.msg = MsgLineFormat)

C1_Witness ==
    /\ pc = "failed"
    /\ shape.kind = "count"
    /\ Len(shape.tokens) = 7
    /\ shape.sep = <<"\t">>
    /\ output.exc = InvalidCronExpressionError
    /\ output.msg = MsgLineFormat

\* C2: every call of parse_cron ends either with a complete result map of the six
\* keys minute, hour, day_of_month, month, day_of_week, command, or with one of the
\* declared errors of the ValidationError family; no other error escapes.
C2_OnlyDeclaredErrors ==
    Called =>
        \/ /\ output.status = "ok"
           /\ [k \in 1..Len(output.value) |-> output.value[k].key] = FieldKeys
        \/ /\ output.status = "raise"
           /\ output.exc \in ValidationErrors

-----------------------------------------------------------------------------
(* Claims about the field expression evaluator (checked under SpecEval).    *)

Evaluated == pc = "evaluated"
Domain == ALLOWED_VALUES[field]
\* the cells of the integers from lo through hi
Cells(lo, hi) == [k \in 1..(hi - lo + 1) |-> I(lo + k - 1)]
\* s divides v
Divides(s, v) == \E k \in 0..v : k * (IF s < 0 THEN 0 - s ELSE s) = v
\* cells is a strictly increasing list of integers holding exactly the members of set
IncreasingOver(cells, set) ==
    /\ \A k \in 1..Len(cells) : IsInt(cells[k])
    /\ \A k \in 1..(Len(cells) - 1) : cells[k].int < cells[k + 1].int
    /\ {cells[k].int : k \in 1..Len(cells)} = set

Count(cells, v) == Cardinality({k \in 1..Len(cells) : cells[k] = I(v)})
\* the number of times the list element el yields the integer v
Yields(el, v) ==
    IF el.kind = "int" THEN (IF el.a = v THEN 1 ELSE 0)
    ELSE (IF el.a <= v /\ v <= el.b THEN 1 ELSE 0)
RECURSIVE YieldsAll(_, _)
YieldsAll(elems, v) ==
    IF elems = <<>> THEN 0 ELSE Yields(Head(elems), v) + YieldsAll(Tail(elems), v)
ValidElement(el) ==
    /\ InDomain(field, el.a)
    /\ el.kind = "range" => (InDomain(field, el.b) /\ el.a <= el.b)

\* C4: a list expression whose elements are integers and ranges "N-M" (N <= M in
\* the domain) evaluates to a list sorted ascending that holds every value exactly
\* as often as the elements yield it (an integer itself, a range each of its
\* values), duplicates kept; the order the elements are written in has no effect,
\* sorted lists with the same occurrences being equal.
C4_List ==
    (Evaluated /\ shape.kind = "list"
        /\ \A k \in 1..Len(shape.elems) : ValidElement(shape.elems[k])) =>
        /\ result.status = "ok"
        /\ \A k \in 1..Len(result.value) : IsInt(result.value[k])
        /\ \A k \in 1..(Len(result.value) - 1) :
               result.value[k].int <= result.value[k + 1].int
        /\ \A v \in ListNums(field) : Count(result.value, v) = YieldsAll(shape.elems, v)
        /\ \A k \in 1..Len(result.value) : result.value[k].int \in ListNums(field)

C4_Witness ==
    /\ Evaluated
    /\ field = "minute"
    /\ shape.kind = "list"
    /\ shape.elems = <<[kind |-> "range", a |-> 0, b |-> 2], [kind |-> "int", a |-> 1]>>
    /\ result = Ok(<<I(0), I(1), I(1), I(2)>>)

\* C5: for every field and every step value S (not zero) the expression "*/S"
\* evaluates to exactly the domain values divisible by S, in domain order.
C5_StepAll ==
    (Evaluated /\ shape.kind = "step_all" /\ shape.step # 0) =>
        /\ result.status = "ok"
        /\ IncreasingOver(result.value,
                          {v \in First(field)..Last(field) : Divides(shape.step, v)})

C5_Witness ==
    /\ Evaluated
    /\ field = "day_of_month"
    /\ shape = [kind |-> "step_all", step |-> 5]
    /\ result = Ok(<<I(5), I(10), I(15), I(20), I(25), I(30)>>)

\* C6: for every field the expression "s/S" with an integer start s evaluates, when
\* s is in the domain (and S is not zero), to exactly the domain values from s on
\* that are divisible by S, in domain order, so that s itself appears only when S
\* divides it; when s is not in the domain it fails with InvalidCronValueError.
C6_StepFrom ==
    (Evaluated /\ shape.kind = "step_from") =>
        /\ (InDomain(field, shape.a) /\ shape.step # 0) =>
               /\ result.status = "ok"
               /\ IncreasingOver(result.value,
                                 {v \in shape.a..Last(field) : Divides(shape.step, v)})
        /\ ~InDomain(field, shape.a) =>
               result.status = "raise" /\ result.exc = InvalidCronValueError

C6_Witness ==
    /\ Evaluated
    /\ field = "hour"
    /\ shape = [kind |-> "step_from", a |-> 4, step |-> 4]
    /\ result = Ok(<<I(4), I(8), I(12), I(16), I(20)>>)

\* C7: for every field the expression "N-M/S" with N <= M in the domain (S >= 1)
\* evaluates to the elements at positions 0, S, 2S, ... of the range N..M: N,
\* N + S, N + 2S, ... up to M, whether or not S divides them.
C7_StepRange ==
    (Evaluated /\ shape.kind = "step_range" /\ shape.step >= 1
        /\ InDomain(field, shape.a) /\ InDomain(field, shape.b) /\ shape.a <= shape.b) =>
        result = Ok([k \in 1..(((shape.b - shape.a) \div shape.step) + 1) |->
                        I(shape.a + (k - 1) * shape.step)])

C7_Witness ==
    /\ Evaluated
    /\ field = "day_of_month"
    /\ shape = [kind |-> "step_range", a |-> 1, b |-> 7, step |-> 2]
    /\ result = Ok(<<I(1), I(3), I(5), I(7)>>)

\* the label the weekday form is to return for day d
NearestWeekdayText(d) ==
    <<"N", "e", "a", "r", "e", "s", "t", " ", "w", "e", "e", "k", "d", "a", "y", " ", "t", "o", " ", "t", "h", "e", " ">>
    \o IntToStr(d) \o <<" ", "o", "f", " ", "t", "h", "e", " ", "m", "o", "n", "t", "h">>
\* the positions of W in the expression
WPositions == {k \in 1..Len(expression) : expression[k] = "W"}
\* the part of the expression left of its W
LeftOfW == SubSeq(expression, 1, (CHOOSE k \in WPositions : TRUE) - 1)

-----------------------------------------------------------------------------
(* Claims about names and about the table (checked under SpecCron).         *)

NamedLine == Called /\ shape.kind = "names"
\* the named token stands where its names are to be replaced
Replaced ==
    \/ shape.pos = 4 /\ shape.of = "month"
    \/ shape.pos = 5 /\ shape.of = "day"
\* the line with every name of the named token written as its number
NumericLine ==
    Join(<<" ">>, [k \in 1..6 |-> IF k = shape.pos THEN RenderNumeric(shape.named)
                                  ELSE IF k = 6 THEN Command ELSE <<"1">>])
NamedValues == output.value[shape.pos].values

\* C9: a month token written with month names, or a day-of-week token written with
\* day names, gets from parse_cron the expansion of the token with each name
\* replaced by its number (JAN..DEC = 1..12, SUN..SAT = 1..7): a single name its
\* number, a list the sorted numbers, a range the numbers from start through end;
\* names are not replaced anywhere else: in the minute, hour and day-of-month tokens
\* (and names of the other kind in month and day of week) they are no numbers and
\* the parse fails, and the command is kept as written.
C9_Names ==
    NamedLine =>
        /\ Replaced =>
              /\ output = parse_cron(NumericLine)
              /\ shape.named.form = "one" =>
                    output.status = "ok" /\ NamedValues = <<I(shape.named.x)>>
              /\ shape.named.form = "list" =>
                    /\ output.status = "ok"
                    /\ NamedValues = IF shape.named.x <= shape.named.y
                                     THEN <<I(shape.named.x), I(shape.named.y)>>
                                     ELSE <<I(shape.named.y), I(shape.named.x)>>
              /\ (shape.named.form = "range" /\ shape.named.x <= shape.named.y) =>
                    output.status = "ok" /\ NamedValues = Cells(shape.named.x, shape.named.y)
        /\ (~Replaced /\ shape.pos \in 1..5) => output.status = "raise"
        /\ shape.pos = 6 =>
              /\ output.status = "ok"
              /\ NamedValues = <<S(RenderNamed(shape.named, NamesOf(shape)))>>

C9_Witness ==
    /\ pc = "parsed"
    /\ shape.kind = "names"
    /\ shape.pos = 5
    /\ shape.of = "day"
    /\ shape.named = [kind |-> "named", form |-> "list", x |-> 2, y |-> 6,
                      nx |-> TRUE, ny |-> TRUE]
    /\ output.value[5].values = <<I(2), I(6)>>

\* the field names as the rows of the table show them
RowNames ==
    <<<<"m", "i", "n", "u", "t", "e">>,
      <<"h", "o", "u", "r">>,
      <<"d", "a", "y", " ", "o", "f", " ", "m", "o", "n", "t", "h">>,
      <<"m", "o", "n", "t", "h">>,
      <<"d", "a", "y", " ", "o", "f", " ", "w", "e", "e", "k">>,
      <<"c", "o", "m", "m", "a", "n", "d">>>>
Spaces(n) == [k \in 1..n |-> " "]
\* row k of the table: the name, spaces up to the column width, a space, the cells
ExpectedRow(k) ==
    RowNames[k] \o Spaces(col_width - Len(RowNames[k])) \o <<" ">>
        \o Join(<<" ">>, CellStrings(output.value[k].values))

-----------------------------------------------------------------------------
(* Claims about the cells of a result and about the bare-integer case       *)
(* (checked under SpecEval).                                                *)

\* the cell is the label the weekday form returns
IsWeekdayLabel(cell) == \E d \in First("day_of_month")..Last("day_of_month") :
                            cell = S(NearestWeekdayText(d))
NotAvailable == S(<<"N", "/", "A">>)

\* C11: for every successful evaluation of any of the five fields every cell of the
\* returned list is an integer that is a member of the field's domain, or the
\* weekday label (day-of-month weekday form only), or "N/A" (the ? form only); no
\* integer outside the domain is returned, whichever syntax form produced it.
C11_CellsInDomain ==
    (Evaluated /\ result.status = "ok") =>
        \A k \in 1..Len(result.value) :
            \/ IsInt(result.value[k]) /\ In(result.value[k], Domain)
            \/ /\ IsWeekdayLabel(result.value[k])
               /\ field = "day_of_month"
               /\ Contains(expression, "W")
            \/ /\ result.value[k] = NotAvailable
               /\ expression = <<"?">>

\* the expression takes none of the forms allowed for the field: no allowed marker
\* among W / , - occurs in it, and it is neither an allowed * nor an allowed ?
BareCase ==
    /\ \A c \in {"W", "/", ",", "-"} :
           ~(Contains(expression, c) /\ In(c, ALLOWED_CHARS[field]))
    /\ \A c \in {"*", "?"} : ~(expression = <<c>> /\ In(c, ALLOWED_CHARS[field]))

\* C12: a token that reaches the bare-integer case of the dispatch (tokens using a
\* marker character not allowed for the field included) fails with
\* InvalidCronExpressionError if it is not numeric, fails with
\* InvalidCronValueError if it is numeric but no member of the field's domain, and
\* otherwise evaluates to the one-element list holding that integer.
C12_BareInteger ==
    (Evaluated /\ BareCase) =>
        LET v == PyInt(expression)
        IN  /\ ~v.ok => result.status = "raise" /\ result.exc = InvalidCronExpressionError
            /\ (v.ok /\ ~InDomain(field, v.val)) =>
                   result.status = "raise" /\ result.exc = InvalidCronValueError
            /\ (v.ok /\ InDomain(field, v.val)) => result = Ok(<<I(v.val)>>)

-----------------------------------------------------------------------------
(* The two implementations compared (checked under SpecBoth).               *)

\* C13: the single-file cron_parser.py and the package's c_parser.py do not
\* diverge: for every line both parse_cron functions succeed or both fail, on
\* success they return equal dicts, and for every result dict (and col_width) both
\* generate_table functions return the same string.
C13_NoDivergence ==
    /\ legacy_result # NoOutcome =>
          /\ (legacy_result.status = "ok") <=> (output.status = "ok")
          /\ legacy_result.status = "ok" => legacy_result.value = output.value
    /\ legacy_table # <<>> => legacy_table = table

-----------------------------------------------------------------------------
(* Sequences of calls (checked under SpecCalls).                            *)

\* C14: parse_cron calls are independent: after any sequence of calls, interleaved
\* with the caller modifying the lists of the dicts it was handed back, the lists
\* of ALLOWED_VALUES are as config.py set them, and every call returns for its line
\* what a very first call returns for it ("*" the full domain).
C14_IndependentCalls ==
    /\ registry = ALLOWED_VALUES
    /\ pc \in {"parsed", "failed"} => output = parse_cron_given(cron_exp, ALLOWED_VALUES)

=============================================================================
